---- MODULE Spec2Model ----
(***************************************************************************)
(* Batch orchestration of sqsh's front end: the drag-drop handler          *)
(* handleFiles with its bounded-concurrency dispatcher processNext, the    *)
(* per-item status kept in the React state `files`, and the disposition    *)
(* step (single save / zip archive) with its archive member names.         *)
(*                                                                         *)
(* Strings are sequences of one-character strings, so that split,          *)
(* startsWith, lastIndexOf, substring and replace are computed as the      *)
(* JavaScript code computes them.                                          *)
(***************************************************************************)
EXTENDS Integers, Sequences, FiniteSets, TLC

VARIABLES
    files,          \* React state: the tracked items, newest batch first
    overwrite,      \* React state: the "Overwrite Original Files" toggle
    pc,             \* per handleFiles call: where the async function stands
    droppedPaths,   \* per call: the drop payload
    cOverwrite,     \* per call: the `overwrite` the closure captured
    newFiles,       \* per call: the items created from the expanded paths
    results,        \* per call: the Map id -> output path, in insertion order
    activeCount,    \* per call: transforms in flight, as the code counts them
    currentIndex,   \* per call: the shared cursor into newFiles
    inflight,       \* per call: indices of newFiles whose invoke is pending
    nextId,         \* ids handed out so far (crypto.randomUUID is fresh)
    dialogs,        \* per call: the save() dialogs opened
    saveFileCalls,  \* per call: the save_file commands invoked
    zipCalls,       \* per call: the zip_files commands invoked
    optimizedResults, \* per call of the sequential handler: its output paths
    loopAt,         \* per call of the sequential handler: the item awaited
    consoleErrors,  \* per call: the console.error lines of its catch blocks
    settings,       \* React state: convertEnabled, convertFormat, quality
    configPromise,  \* the get_config invoke of the mount effect
    cSettings,      \* per call: the settings the closure captured
    invokeLog       \* per call: the arguments of its optimize_image invokes

vars == <<files, overwrite, pc, droppedPaths, cOverwrite, newFiles, results,
          activeCount, currentIndex, inflight, nextId, dialogs, saveFileCalls,
          zipCalls, optimizedResults, loopAt, consoleErrors,
          settings, configPromise, cSettings, invokeLog>>

\* the locals of the concurrent handler and those of the sequential one
concVars == <<results, activeCount, currentIndex, inflight, nextId>>
seqVars == <<optimizedResults, loopAt>>

(***************************************************************************)
(* Bounds of the model.                                                    *)
(***************************************************************************)
\* drop events handled in one behaviour of Spec
MaxDrops == 1
\* handleFiles calls the state has room for
MaxBatches == 2

Batches == 1..MaxBatches

CONCURRENCY_LIMIT == 4

\* items the drop events of one behaviour may create
MaxItems == 5

(***************************************************************************)
(* JavaScript string and array primitives used by the handler.             *)
(***************************************************************************)
Min(a, b) == IF a < b THEN a ELSE b
Max(a, b) == IF a > b THEN a ELSE b

IsSep(c) == c = "/" \/ c = "\\"

\* s.startsWith(p)
StartsWith(s, p) == Len(p) <= Len(s) /\ SubSeq(s, 1, Len(p)) = p

\* s.lastIndexOf(c): 0-based, -1 when c does not occur
LastIndexOf(s, c) ==
    LET hits == {i \in 1..Len(s) : s[i] = c}
    IN  IF hits = {} THEN -1
        ELSE (CHOOSE i \in hits : \A j \in hits : j <= i) - 1

\* s.substring(from), from 0-based
Substring(s, from) == SubSeq(s, from + 1, Len(s))

\* s.substring(0, to), to 0-based and exclusive
SubstringTo(s, to) == SubSeq(s, 1, to)

\* s.split(/[\\/]/).pop(): the text after the last separator
SplitSepPop(s) ==
    LET hits == {i \in 1..Len(s) : IsSep(s[i])}
    IN  IF hits = {} THEN s
        ELSE SubSeq(s, (CHOOSE i \in hits : \A j \in hits : j <= i) + 1, Len(s))

\* s.split('.').pop(): the text after the last dot, the whole string without one
SplitDotPop(s) == Substring(s, LastIndexOf(s, ".") + 1)

\* s.replace(/\\/g, '/')
ReplaceBackslashes(s) == [i \in 1..Len(s) |-> IF s[i] = "\\" THEN "/" ELSE s[i]]

image == <<"i", "m", "a", "g", "e">>

\* originalPath.split(/[\\/]/).pop() || "image"
BaseName(s) == IF SplitSepPop(s) = <<>> THEN image ELSE SplitSepPop(s)


(***************************************************************************)
(* The collaborators behind invoke(): the Rust commands are not part of    *)
(* the front end's source, so they are modelled from their contracts.      *)
(***************************************************************************)
\* The files on disk, in the order scan_directory lists them: the folders
\* /p and /s and the file /f.png, then a tree with nested folders (/a/b/c),
\* a folder whose name carries a dot (/a/b.c) holding a file without an
\* extension, a sibling folder whose name starts like /a (/ab), and a
\* folder on a Windows drive.
FSFiles == <<
    <<"/", "p", "/", "a", ".", "p", "n", "g">>,
    <<"/", "p", "/", "b", ".", "p", "n", "g">>,
    <<"/", "p", "/", "c", ".", "j", "p", "g">>,
    <<"/", "s", "/", "x", ".", "p", "n", "g">>,
    <<"/", "f", ".", "p", "n", "g">>,
    <<"/", "a", "/", "b", "/", "c", "/", "d", ".", "p", "n", "g">>,
    <<"/", "a", "/", "b", "/", "e", ".", "p", "n", "g">>,
    <<"/", "a", "/", "b", ".", "c", "/", "n">>,
    <<"/", "a", "b", "/", "c", "/", "d", ".", "p", "n", "g">>,
    <<"C", ":", "\\", "d", "\\", "e", ".", "p", "n", "g">>,
    <<"C", ":", "\\", "d", "\\", "n">> >>

\* The payloads of the tauri://drag-drop events the model draws from:
\* a directory of three files, a directory of one file, a single file,
\* two directories and a file (five files), an empty directory.
DropPayloads == {
    << <<"/", "p">> >>,
    << <<"/", "s">> >>,
    << <<"/", "f", ".", "p", "n", "g">> >>,
    << <<"/", "p">>, <<"/", "s">>, <<"/", "f", ".", "p", "n", "g">> >>,
    << <<"/", "z">> >> }

IsFile(p) == \E i \in 1..Len(FSFiles) : FSFiles[i] = p

\* f lies in the folder root: root, which may be written with a trailing
\* separator, is followed in f by a separator and a rest.
IsUnder(f, root) ==
    /\ Len(root) > 0
    /\ Len(f) > Len(root)
    /\ StartsWith(f, root)
    /\ IsSep(root[Len(root)]) \/ IsSep(f[Len(root) + 1])

RECURSIVE FilesUnder(_, _)
FilesUnder(root, i) ==
    IF i > Len(FSFiles) THEN <<>>
    ELSE (IF IsUnder(FSFiles[i], root) THEN <<FSFiles[i]>> ELSE <<>>)
         \o FilesUnder(root, i + 1)

\* scan_directory: a file stays itself, a directory becomes the files under it.
RECURSIVE ScanDirectory(_)
ScanDirectory(paths) ==
    IF paths = <<>> THEN <<>>
    ELSE (IF IsFile(Head(paths)) THEN <<Head(paths)>> ELSE FilesUnder(Head(paths), 1))
         \o ScanDirectory(Tail(paths))

\* The temporary file written for filePath: the same path under /t, or under
\* \t of the drive for a path that starts with a drive letter.
TempPath(filePath) ==
    IF Head(filePath) = "/" THEN <<"/", "t">> \o filePath
    ELSE SubSeq(filePath, 1, 2) \o <<"\\", "t">> \o Substring(filePath, 2)

\* optimize_image resolving with a usable output: in place when overwriting,
\* else a temporary file.
Optimized(filePath, ow) ==
    [original_size |-> 2, new_size |-> 1, saved_bytes |-> 1,
     output_path |-> IF ow THEN filePath ELSE TempPath(filePath),
     skipped |-> FALSE, duration_ms |-> 1]

\* The file p with the extension of its final component set to ext (added
\* when that component has none).
WithExtension(p, ext) ==
    LET name == SplitSepPop(p)
        dot  == LastIndexOf(name, ".")
    IN  IF dot > 0 THEN SubstringTo(p, Len(p) - Len(name) + dot) \o <<".">> \o ext
        ELSE p \o <<".">> \o ext

webp == <<"w", "e", "b", "p">>

\* optimize_image resolving after a conversion (convertTo = fmt): the output
\* carries the extension of the target format.
Converted(filePath, ow, fmt) ==
    [original_size |-> 2, new_size |-> 1, saved_bytes |-> 1,
     output_path |-> WithExtension(IF ow THEN filePath ELSE TempPath(filePath), fmt),
     skipped |-> FALSE, duration_ms |-> 1]

\* optimize_image resolving with skipped = true: no improvement was possible.
Skipped(filePath) ==
    [original_size |-> 2, new_size |-> 2, saved_bytes |-> 0,
     output_path |-> filePath, skipped |-> TRUE, duration_ms |-> 1]

\* What an optimize_image call can resolve with; a path that is no file on
\* disk (a directory handed over after a failed scan) can only be rejected.
Outcomes(filePath, ow) ==
    IF IsFile(filePath) THEN {Optimized(filePath, ow), Skipped(filePath)} ELSE {}

\* String(e) of a rejected optimize_image.
Failure == <<"e", "r", "r">>

\* What the save() dialog can resolve with: a chosen path, or null (cancelled).
SavePath == <<"/", "o">>

\* The console.error lines of the catch blocks of line 105, 194 and 253.
ScanFailed == "Failed to scan directories:"
SaveFailed == "Failed to save file:"
ZipFailed == "Failed to zip/save files:"

(***************************************************************************)
(* The item tracker: the functional updates handed to setFiles.            *)
(***************************************************************************)
\* line 109-113: one pending item per expanded path, each with a fresh id
MakeNewFiles(allPaths, firstId) ==
    [i \in 1..Len(allPaths) |->
        [id |-> firstId + i - 1, path |-> allPaths[i], status |-> "pending",
         result |-> <<>>, error |-> <<>>]]

\* line 116: setFiles((prev) => [...newFiles, ...prev])
Prepend(nf, prev) == nf \o prev

\* line 130-134
SetOptimizing(prev, id) ==
    [i \in 1..Len(prev) |->
        IF prev[i].id = id THEN [prev[i] EXCEPT !.status = "optimizing"] ELSE prev[i]]

\* line 148-152
SetDone(prev, id, result) ==
    [i \in 1..Len(prev) |->
        IF prev[i].id = id
        THEN [prev[i] EXCEPT !.status = "done", !.result = <<result>>]
        ELSE prev[i]]

\* line 154-160
SetError(prev, id, e) ==
    [i \in 1..Len(prev) |->
        IF prev[i].id = id
        THEN [prev[i] EXCEPT !.status = "error", !.error = <<e>>]
        ELSE prev[i]]

(***************************************************************************)
(* The Map `results`: entries <<id, output path>> in insertion order.      *)
(***************************************************************************)
MapHas(m, id) == \E i \in 1..Len(m) : m[i][1] = id

MapGet(m, id) == m[CHOOSE i \in 1..Len(m) : m[i][1] = id][2]

\* results.set(id, v): replaces the value of a present key, else appends
MapSet(m, id, v) ==
    IF MapHas(m, id)
    THEN [i \in 1..Len(m) |-> IF m[i][1] = id THEN <<id, v>> ELSE m[i]]
    ELSE Append(m, <<id, v>>)

\* Register without the skipped test: every resolved transform is registered.
RegisterAlways(res, id, result) == MapSet(res, id, result.output_path)

\* line 144-146: if (!result.skipped) results.set(file.id, result.output_path)
Register(res, id, result) ==
    IF ~result.skipped THEN MapSet(res, id, result.output_path) ELSE res

\* line 46-48: the settings a fresh App starts with
InitialSettings ==
    [convertEnabled |-> FALSE, convertFormat |-> <<"j", "p", "g">>, quality |-> 6]

\* line 137-142: the arguments of the invoke for an item, computed from the
\* values the closure of handleFiles holds; <<>> stands for null
InvokeArgs(file, closure) ==
    [filePath    |-> file.path,
     overwrite   |-> closure.overwrite,
     convertTo   |-> IF closure.convertEnabled THEN closure.convertFormat ELSE <<>>,
     qualityStep |-> closure.quality]

(***************************************************************************)
(* processNext, on the locals of one handleFiles call.  L holds the React  *)
(* state and the call's cursor, counter and pending invokes.               *)
(***************************************************************************)
\* processNext without the setFiles of line 130-134: the item is claimed and
\* transformed but never shown as optimizing.
processNextUnmarked(L, nf) ==
    IF L.currentIndex >= Len(nf) THEN L
    ELSE [L EXCEPT
          !.currentIndex = L.currentIndex + 1,
          !.activeCount  = L.activeCount + 1,
          !.inflight     = L.inflight \cup {L.currentIndex + 1},
          !.invokes      = Append(L.invokes, InvokeArgs(nf[L.currentIndex + 1], L.closure))]

\* processNext without the currentIndex++ of line 126: the item at the
\* cursor is taken but the cursor stays.
processNextNoAdvance(L, nf) ==
    IF L.currentIndex >= Len(nf) THEN L
    ELSE [L EXCEPT
          !.files       = SetOptimizing(L.files, nf[L.currentIndex + 1].id),
          !.activeCount = L.activeCount + 1,
          !.inflight    = L.inflight \cup {L.currentIndex + 1},
          !.invokes     = Append(L.invokes, InvokeArgs(nf[L.currentIndex + 1], L.closure))]

\* line 124-142: claim the next item, mark it optimizing, invoke the transform
processNext(L, nf) ==
    IF L.currentIndex >= Len(nf) THEN L
    ELSE [L EXCEPT
          !.files        = SetOptimizing(L.files, nf[L.currentIndex + 1].id),
          !.currentIndex = L.currentIndex + 1,
          !.activeCount  = L.activeCount + 1,
          !.inflight     = L.inflight \cup {L.currentIndex + 1},
          !.invokes      = Append(L.invokes, InvokeArgs(nf[L.currentIndex + 1], L.closure))]

\* The launch loop without the limit: one worker per item.
RECURSIVE StartInitialUnbounded(_, _, _)
StartInitialUnbounded(L, nf, i) ==
    IF i < Len(nf)
    THEN StartInitialUnbounded(processNext(L, nf), nf, i + 1)
    ELSE L

\* A launch that starts one worker only, whatever the limit.
StartInitialSingle(L, nf, i) == processNext(L, nf)

\* line 168-171: the initial launch loop
RECURSIVE StartInitial(_, _, _)
StartInitial(L, nf, i) ==
    IF i < Min(CONCURRENCY_LIMIT, Len(nf))
    THEN StartInitial(processNext(L, nf), nf, i + 1)
    ELSE L

\* The finally block without its processNext call: the worker ends after one
\* item.
FinallyWithoutNext(L, nf, k) ==
    [L EXCEPT !.activeCount = @ - 1, !.inflight = @ \ {k}]

\* A finally block that takes the next item only once every worker of the
\* batch has finished: the batch is worked off in rounds.
FinallyAfterDrain(L, nf, k) ==
    LET M == [L EXCEPT !.activeCount = @ - 1, !.inflight = @ \ {k}]
    IN  IF M.activeCount = 0 THEN processNext(M, nf) ELSE M

\* line 161-164: finally { activeCount--; await processNext(); }
Finally(L, nf, k) ==
    processNext([L EXCEPT !.activeCount = @ - 1, !.inflight = @ \ {k}], nf)

(***************************************************************************)
(* The disposition step, lines 175-257.                                    *)
(***************************************************************************)
\* The member name without the folder of the drop root: the base name only.
RelativeNameFlat(originalPath, dps, i) == BaseName(originalPath)

\* line 215-231: the member name relative to the first matching drop root
RECURSIVE RelativeName(_, _, _)
RelativeName(originalPath, dps, i) ==
    IF i > Len(dps) THEN BaseName(originalPath)
    ELSE IF StartsWith(originalPath, dps[i])
         THEN IF originalPath = dps[i] THEN BaseName(originalPath)
              ELSE LET lastSep == Max(LastIndexOf(dps[i], "/"), LastIndexOf(dps[i], "\\"))
                   IN  IF lastSep # -1 THEN Substring(originalPath, lastSep + 1)
                       ELSE originalPath
         ELSE RelativeName(originalPath, dps, i + 1)

\* line 236-242: replace (or add) the extension
ReplaceExt(nameInZip, outputPath) ==
    LET newExt  == SplitDotPop(outputPath)
        lastDot == LastIndexOf(nameInZip, ".")
    IN  IF lastDot # -1 THEN SubstringTo(nameInZip, lastDot) \o <<".">> \o newExt
        ELSE nameInZip \o <<".">> \o newExt

\* line 214-242
NameInZip(originalPath, dps, outputPath) ==
    ReplaceExt(ReplaceBackslashes(RelativeName(originalPath, dps, 1)), outputPath)

\* The pairs built by walking the Map, that is in completion order.
RECURSIVE FilesToZipByCompletion(_, _, _, _)
FilesToZipByCompletion(nf, res, dps, i) ==
    IF i > Len(res) THEN <<>>
    ELSE LET k == CHOOSE k \in 1..Len(nf) : nf[k].id = res[i][1]
         IN  << <<res[i][2], NameInZip(nf[k].path, dps, res[i][2])>> >>
             \o FilesToZipByCompletion(nf, res, dps, i + 1)

\* line 208-245: the pairs handed to zip_files
RECURSIVE FilesToZip(_, _, _, _)
FilesToZip(nf, res, dps, i) ==
    IF i > Len(nf) THEN <<>>
    ELSE (IF MapHas(res, nf[i].id) /\ MapGet(res, nf[i].id) # <<>>
          THEN << <<MapGet(res, nf[i].id), NameInZip(nf[i].path, dps, MapGet(res, nf[i].id))>> >>
          ELSE <<>>)
         \o FilesToZip(nf, res, dps, i + 1)

\* The branch taken when the guard of line 175 forgets results.size > 0.
DispositionUnguarded(ow, res, nf) ==
    IF ~ow
    THEN IF Len(res) = 1 /\ Len(nf) = 1 THEN "dlgSingle" ELSE "dlgZip"
    ELSE "end"

\* The branch taken when line 175 does not look at overwrite.
DispositionIgnoringOverwrite(ow, res, nf) ==
    IF Len(res) > 0
    THEN IF Len(res) = 1 /\ Len(nf) = 1 THEN "dlgSingle" ELSE "dlgZip"
    ELSE "end"

\* line 175-176: which branch the call takes once Promise.all has resolved
Disposition(ow, res, nf) ==
    IF ~ow /\ Len(res) > 0
    THEN IF Len(res) = 1 /\ Len(nf) = 1
         THEN IF MapHas(res, nf[1].id) /\ MapGet(res, nf[1].id) # <<>>
              THEN "dlgSingle" ELSE "end"
         ELSE "dlgZip"
    ELSE "end"

\* line 182-188 and 199-205: the save() call of the branch taken
DialogOf(kind, nf) ==
    IF kind = "dlgSingle" THEN <<[kind |-> "single", defaultPath |-> nf[1].path]>>
    ELSE IF kind = "dlgZip"
         THEN <<[kind |-> "zip", defaultPath |-> <<"s", "q", "s", "h", ".", "z", "i", "p">>]>>
         ELSE <<>>


(***************************************************************************)
(* The state machine.                                                      *)
(***************************************************************************)
\* line 43-49: the state after construction
Init ==
    /\ files = <<>>
    /\ overwrite = TRUE
    /\ pc = [b \in Batches |-> "idle"]
    /\ droppedPaths = [b \in Batches |-> <<>>]
    /\ cOverwrite = [b \in Batches |-> TRUE]
    /\ newFiles = [b \in Batches |-> <<>>]
    /\ results = [b \in Batches |-> <<>>]
    /\ activeCount = [b \in Batches |-> 0]
    /\ currentIndex = [b \in Batches |-> 0]
    /\ inflight = [b \in Batches |-> {}]
    /\ nextId = 1
    /\ dialogs = [b \in Batches |-> <<>>]
    /\ saveFileCalls = [b \in Batches |-> <<>>]
    /\ zipCalls = [b \in Batches |-> <<>>]
    /\ optimizedResults = [b \in Batches |-> <<>>]
    /\ loopAt = [b \in Batches |-> 0]
    /\ consoleErrors = [b \in Batches |-> <<>>]
    /\ settings = InitialSettings
    /\ configPromise = "pending"
    /\ cSettings = [b \in Batches |-> InitialSettings]
    /\ invokeLog = [b \in Batches |-> <<>>]

\* What processNext would read if it looked at the React state of the
\* latest render instead of the values its closure holds.
LatestRender(b) ==
    [overwrite |-> overwrite, convertEnabled |-> settings.convertEnabled,
     convertFormat |-> settings.convertFormat, quality |-> settings.quality]

\* line 100-142: overwrite, convertEnabled, convertFormat and quality inside
\* handleFiles are the constants of the render that created it, the render
\* whose listener received the drop
ClosureOf(b) ==
    [overwrite |-> cOverwrite[b], convertEnabled |-> cSettings[b].convertEnabled,
     convertFormat |-> cSettings[b].convertFormat, quality |-> cSettings[b].quality]

\* The locals of call b together with the React state, as processNext sees them.
Locals(b) ==
    [files |-> files, currentIndex |-> currentIndex[b],
     activeCount |-> activeCount[b], inflight |-> inflight[b],
     closure |-> ClosureOf(b), invokes |-> invokeLog[b]]

\* A call that goes on to line 175 as soon as every item is claimed, without
\* waiting for the workers.
CommitEarly(b, L, res, nf) ==
    LET next == IF L.currentIndex = Len(nf)
                THEN Disposition(cOverwrite[b], res, nf) ELSE "run"
    IN  /\ files' = L.files
        /\ currentIndex' = [currentIndex EXCEPT ![b] = L.currentIndex]
        /\ activeCount' = [activeCount EXCEPT ![b] = L.activeCount]
        /\ inflight' = [inflight EXCEPT ![b] = L.inflight]
        /\ results' = [results EXCEPT ![b] = res]
        /\ pc' = [pc EXCEPT ![b] = next]
        /\ dialogs' = [dialogs EXCEPT ![b] = @ \o DialogOf(next, nf)]
        /\ invokeLog' = [invokeLog EXCEPT ![b] = L.invokes]

\* Store what a step of call b left behind.  When no invoke is pending any
\* more, every processNext promise has resolved, Promise.all resolves and the
\* call goes on to line 175 in the same turn of the event loop.
Commit(b, L, res, nf) ==
    LET next == IF L.inflight = {} THEN Disposition(cOverwrite[b], res, nf) ELSE "run"
    IN  /\ files' = L.files
        /\ currentIndex' = [currentIndex EXCEPT ![b] = L.currentIndex]
        /\ activeCount' = [activeCount EXCEPT ![b] = L.activeCount]
        /\ inflight' = [inflight EXCEPT ![b] = L.inflight]
        /\ results' = [results EXCEPT ![b] = res]
        /\ pc' = [pc EXCEPT ![b] = next]
        /\ dialogs' = [dialogs EXCEPT ![b] = @ \o DialogOf(next, nf)]
        /\ invokeLog' = [invokeLog EXCEPT ![b] = L.invokes]

\* The items a call dropped with paths creates at most: the files the scan
\* finds, or the dropped paths themselves when the scan fails.
ItemsOf(paths) == Max(Len(ScanDirectory(paths)), Len(paths))

\* The items the calls that still await their scan may create.
RECURSIVE PendingItems(_)
PendingItems(b) ==
    IF b = 0 THEN 0
    ELSE (IF pc[b] = "scan" THEN ItemsOf(droppedPaths[b]) ELSE 0) + PendingItems(b - 1)

\* The drop events the runs draw: those after which the items created so
\* far and still to be created number at most MaxItems.  This bounds the
\* events delivered, not the handler: a call that was started always goes on.
Fits(paths) == nextId - 1 + PendingItems(MaxBatches) + ItemsOf(paths) <= MaxItems

\* line 89-93: a drag-drop event with a non-empty payload calls handleFiles,
\* which awaits scan_directory (line 103)
Drop(b, paths) ==
    /\ pc[b] = "idle"
    /\ \A a \in Batches : a < b => pc[a] # "idle"
    /\ Len(paths) > 0
    /\ pc' = [pc EXCEPT ![b] = "scan"]
    /\ droppedPaths' = [droppedPaths EXCEPT ![b] = paths]
    /\ cOverwrite' = [cOverwrite EXCEPT ![b] = overwrite]
    /\ cSettings' = [cSettings EXCEPT ![b] = settings]
    /\ UNCHANGED <<files, overwrite, newFiles, results, activeCount, currentIndex,
                   inflight, nextId, dialogs, saveFileCalls, zipCalls>>
    /\ UNCHANGED <<configPromise, seqVars, consoleErrors, settings, invokeLog>>

\* line 109-173: the items are created, prepended and the first workers started
Begin(b, allPaths) ==
    LET nf == MakeNewFiles(allPaths, nextId)
        L0 == [files |-> Prepend(nf, files), currentIndex |-> 0,
               activeCount |-> 0, inflight |-> {},
               closure |-> ClosureOf(b), invokes |-> <<>>]
    IN  /\ newFiles' = [newFiles EXCEPT ![b] = nf]
        /\ nextId' = nextId + Len(allPaths)
        /\ Commit(b, StartInitial(L0, nf, 0), <<>>, nf)
        /\ UNCHANGED <<overwrite, droppedPaths, cOverwrite, cSettings, saveFileCalls, zipCalls>>
    /\ UNCHANGED <<configPromise, seqVars, settings>>

\* line 103: scan_directory resolves
ScanResolve(b) ==
    /\ pc[b] = "scan"
    /\ Begin(b, ScanDirectory(droppedPaths[b]))
    /\ UNCHANGED consoleErrors

\* A catch that logs the failed scan and gives the batch up.
ScanRejectAborts(b) ==
    /\ pc[b] = "scan"
    /\ pc' = [pc EXCEPT ![b] = "end"]
    /\ consoleErrors' = [consoleErrors EXCEPT ![b] = Append(@, ScanFailed)]
    /\ UNCHANGED <<files, overwrite, droppedPaths, cOverwrite, cSettings, newFiles, results,
                   activeCount, currentIndex, inflight, nextId, dialogs,
                   saveFileCalls, zipCalls>>
    /\ UNCHANGED <<configPromise, seqVars, settings, invokeLog>>

\* line 104-107: scan_directory rejects: the catch logs it and the dropped
\* paths are used as they are
ScanReject(b) ==
    /\ pc[b] = "scan"
    /\ Begin(b, droppedPaths[b])
    /\ consoleErrors' = [consoleErrors EXCEPT ![b] = Append(@, ScanFailed)]

\* line 137-152 and 161-164: the invoke for item k resolves
TransformResolve(b, k, result) ==
    LET nf  == newFiles[b]
        res == Register(results[b], nf[k].id, result)
        L1  == [Locals(b) EXCEPT !.files = SetDone(files, nf[k].id, result)]
    IN  /\ pc[b] = "run"
        /\ k \in inflight[b]
        /\ Commit(b, Finally(L1, nf, k), res, nf)
        /\ UNCHANGED <<overwrite, droppedPaths, cOverwrite, cSettings, newFiles, nextId,
                       saveFileCalls, zipCalls>>
    /\ UNCHANGED <<configPromise, seqVars, consoleErrors, settings>>

\* line 153-164: the invoke for item k rejects
TransformReject(b, k) ==
    LET nf == newFiles[b]
        L1 == [Locals(b) EXCEPT !.files = SetError(files, nf[k].id, Failure)]
    IN  /\ pc[b] = "run"
        /\ k \in inflight[b]
        /\ Commit(b, Finally(L1, nf, k), results[b], nf)
        /\ UNCHANGED <<overwrite, droppedPaths, cOverwrite, cSettings, newFiles, nextId,
                       saveFileCalls, zipCalls>>
    /\ UNCHANGED <<configPromise, seqVars, consoleErrors, settings>>

\* line 190-192: the single-file dialog resolves; savePath is <<>> for null
SaveSingleResolve(b, savePath) ==
    /\ pc[b] = "dlgSingle"
    /\ IF savePath # <<>>
       THEN /\ saveFileCalls' = [saveFileCalls EXCEPT ![b] =
                    Append(@, [srcPath |-> MapGet(results[b], newFiles[b][1].id),
                               destPath |-> savePath])]
            /\ pc' = [pc EXCEPT ![b] = "saveFile"]
       ELSE /\ pc' = [pc EXCEPT ![b] = "end"]
            /\ UNCHANGED saveFileCalls
    /\ UNCHANGED <<files, overwrite, droppedPaths, cOverwrite, cSettings, newFiles, results,
                   activeCount, currentIndex, inflight, nextId, dialogs, zipCalls>>
    /\ UNCHANGED <<configPromise, seqVars, consoleErrors, settings, invokeLog>>

\* The archive branch without the test of line 207: zip_files is invoked
\* whatever the dialog returned.
SaveZipResolveUnchecked(b, savePath) ==
    /\ pc[b] = "dlgZip"
    /\ zipCalls' = [zipCalls EXCEPT ![b] =
            Append(@, [files |-> FilesToZip(newFiles[b], results[b],
                                            droppedPaths[b], 1),
                       outputPath |-> savePath])]
    /\ pc' = [pc EXCEPT ![b] = "zipFiles"]
    /\ UNCHANGED <<files, overwrite, droppedPaths, cOverwrite, cSettings, newFiles, results,
                   activeCount, currentIndex, inflight, nextId, dialogs,
                   saveFileCalls>>
    /\ UNCHANGED <<configPromise, seqVars, consoleErrors, settings, invokeLog>>

\* line 207-250: the archive dialog resolves; savePath is <<>> for null
SaveZipResolve(b, savePath) ==
    /\ pc[b] = "dlgZip"
    /\ IF savePath # <<>>
       THEN /\ zipCalls' = [zipCalls EXCEPT ![b] =
                    Append(@, [files |-> FilesToZip(newFiles[b], results[b],
                                                    droppedPaths[b], 1),
                               outputPath |-> savePath])]
            /\ pc' = [pc EXCEPT ![b] = "zipFiles"]
       ELSE /\ pc' = [pc EXCEPT ![b] = "end"]
            /\ UNCHANGED zipCalls
    /\ UNCHANGED <<files, overwrite, droppedPaths, cOverwrite, cSettings, newFiles, results,
                   activeCount, currentIndex, inflight, nextId, dialogs,
                   saveFileCalls>>
    /\ UNCHANGED <<configPromise, seqVars, consoleErrors, settings, invokeLog>>

\* line 193-195 and 252-254: the catch of the branch the call is in
CatchOf(at) ==
    IF at \in {"dlgSingle", "saveFile"} THEN SaveFailed ELSE ZipFailed

\* line 193-195 and 252-254: save() rejects; the catch logs it and the call
\* returns
SaveReject(b) ==
    /\ pc[b] \in {"dlgSingle", "dlgZip"}
    /\ pc' = [pc EXCEPT ![b] = "end"]
    /\ consoleErrors' = [consoleErrors EXCEPT ![b] = Append(@, CatchOf(pc[b]))]
    /\ UNCHANGED <<files, overwrite, droppedPaths, cOverwrite, cSettings, newFiles, results,
                   activeCount, currentIndex, inflight, nextId, dialogs,
                   saveFileCalls, zipCalls>>
    /\ UNCHANGED <<configPromise, seqVars, settings, invokeLog>>

\* line 191 and 247-250: save_file or zip_files resolves and the call returns
CommandResolve(b) ==
    /\ pc[b] \in {"saveFile", "zipFiles"}
    /\ pc' = [pc EXCEPT ![b] = "end"]
    /\ UNCHANGED <<files, overwrite, droppedPaths, cOverwrite, cSettings, newFiles, results,
                   activeCount, currentIndex, inflight, nextId, dialogs,
                   saveFileCalls, zipCalls>>
    /\ UNCHANGED <<configPromise, seqVars, consoleErrors, settings, invokeLog>>

\* A catch block that also marks the items of the call as failed.
CommandRejectMarking(b) ==
    /\ pc[b] \in {"saveFile", "zipFiles"}
    /\ pc' = [pc EXCEPT ![b] = "end"]
    /\ consoleErrors' = [consoleErrors EXCEPT ![b] = Append(@, CatchOf(pc[b]))]
    /\ files' = [i \in 1..Len(files) |->
                    IF \E k \in 1..Len(newFiles[b]) : newFiles[b][k].path = files[i].path
                    THEN [files[i] EXCEPT !.status = "error"] ELSE files[i]]
    /\ UNCHANGED <<overwrite, droppedPaths, cOverwrite, cSettings, newFiles, results,
                   activeCount, currentIndex, inflight, nextId, dialogs,
                   saveFileCalls, zipCalls>>
    /\ UNCHANGED <<configPromise, seqVars, settings, invokeLog>>

\* line 191-195 and 247-254: save_file or zip_files rejects; the catch logs it
\* and the call returns
CommandReject(b) ==
    /\ pc[b] \in {"saveFile", "zipFiles"}
    /\ pc' = [pc EXCEPT ![b] = "end"]
    /\ consoleErrors' = [consoleErrors EXCEPT ![b] = Append(@, CatchOf(pc[b]))]
    /\ UNCHANGED <<files, overwrite, droppedPaths, cOverwrite, cSettings, newFiles, results,
                   activeCount, currentIndex, inflight, nextId, dialogs,
                   saveFileCalls, zipCalls>>
    /\ UNCHANGED <<configPromise, seqVars, settings, invokeLog>>

\* line 293: the overwrite checkbox
SetOverwrite ==
    /\ overwrite' = ~overwrite
    /\ UNCHANGED <<files, pc, droppedPaths, cOverwrite, cSettings, newFiles, results,
                   activeCount, currentIndex, inflight, nextId, dialogs,
                   saveFileCalls, zipCalls>>
    /\ UNCHANGED <<configPromise, seqVars, consoleErrors, settings, invokeLog>>

\* A Clear History that also gives up the calls that are still dispatching.
ClearHistoryCancelling ==
    /\ Len(files) > 0
    /\ files' = <<>>
    /\ pc' = [b \in Batches |-> IF pc[b] \in {"scan", "run"} THEN "end" ELSE pc[b]]
    /\ inflight' = [b \in Batches |-> IF pc[b] \in {"scan", "run"} THEN {} ELSE inflight[b]]
    /\ activeCount' = [b \in Batches |-> IF pc[b] \in {"scan", "run"} THEN 0 ELSE activeCount[b]]
    /\ UNCHANGED <<overwrite, droppedPaths, cOverwrite, cSettings, newFiles, results,
                   currentIndex, nextId, dialogs, saveFileCalls, zipCalls>>
    /\ UNCHANGED <<configPromise, seqVars, consoleErrors, settings, invokeLog>>

\* line 364-372: the Clear History button, shown while files is non-empty
ClearHistory ==
    /\ Len(files) > 0
    /\ files' = <<>>
    /\ UNCHANGED <<overwrite, pc, droppedPaths, cOverwrite, cSettings, newFiles, results,
                   activeCount, currentIndex, inflight, nextId, dialogs,
                   saveFileCalls, zipCalls>>
    /\ UNCHANGED <<configPromise, seqVars, consoleErrors, settings, invokeLog>>

Next ==
    \/ \E b \in 1..MaxDrops, paths \in DropPayloads : Fits(paths) /\ Drop(b, paths)
    \/ \E b \in Batches : ScanResolve(b)
    \/ \E b \in Batches : ScanReject(b)
    \/ \E b \in Batches : \E k \in inflight[b] :
         \E result \in Outcomes(newFiles[b][k].path, cOverwrite[b]) :
            TransformResolve(b, k, result)
    \/ \E b \in Batches : \E k \in inflight[b] : TransformReject(b, k)
    \/ \E b \in Batches, savePath \in {SavePath, <<>>} : SaveSingleResolve(b, savePath)
    \/ \E b \in Batches, savePath \in {SavePath, <<>>} : SaveZipResolve(b, savePath)
    \/ \E b \in Batches : SaveReject(b)
    \/ \E b \in Batches : CommandResolve(b)
    \/ \E b \in Batches : CommandReject(b)
    \/ SetOverwrite
    \/ ClearHistory

Spec == Init /\ [][Next]_vars

(***************************************************************************)
(* The handler on drops whose member names differ: nested folders, a root  *)
(* written with a trailing separator, a root that is a character prefix    *)
(* of a sibling folder, files dropped next to folders, two files of one    *)
(* base name from different folders, Windows paths, and transforms that    *)
(* keep or convert the format.                                             *)
(***************************************************************************)
NamePayloads == {
    << <<"/", "a", "/", "b">> >>,
    << <<"/", "a", "/", "b", "/">> >>,
    << <<"/", "a">>, <<"/", "a", "b", "/", "c">> >>,
    << <<"/", "a", "b", "/", "c">>, <<"/", "a">> >>,
    << <<"/", "a", "/", "b", "/", "e", ".", "p", "n", "g">>,
       <<"/", "a", "b", "/", "c", "/", "d", ".", "p", "n", "g">> >>,
    << <<"/", "a">>, <<"/", "a", "b", "/", "c", "/", "d", ".", "p", "n", "g">> >>,
    << <<"/", "a", "b", "/", "c">> >>,
    << <<"/", "a", "/", "b", "/", "c", "/", "d", ".", "p", "n", "g">>,
       <<"/", "a", "b", "/", "c", "/", "d", ".", "p", "n", "g">> >>,
    << <<"C", ":", "\\", "d">> >> }

\* What optimize_image resolves with here: the format kept or converted.
NameOutcomes(filePath, ow) ==
    IF IsFile(filePath)
    THEN {Optimized(filePath, ow), Converted(filePath, ow, webp)}
    ELSE {}

NextNames ==
    \/ \E paths \in NamePayloads : Fits(paths) /\ Drop(1, paths)
    \/ \E b \in Batches : ScanResolve(b)
    \/ \E b \in Batches : ScanReject(b)
    \/ \E b \in Batches : \E k \in inflight[b] :
         \E result \in NameOutcomes(newFiles[b][k].path, cOverwrite[b]) :
            TransformResolve(b, k, result)
    \/ \E b \in Batches : \E k \in inflight[b] : TransformReject(b, k)
    \/ \E b \in Batches, savePath \in {SavePath, <<>>} : SaveSingleResolve(b, savePath)
    \/ \E b \in Batches, savePath \in {SavePath, <<>>} : SaveZipResolve(b, savePath)
    \/ \E b \in Batches : SaveReject(b)
    \/ \E b \in Batches : CommandResolve(b)
    \/ \E b \in Batches : CommandReject(b)
    \/ SetOverwrite
    \/ ClearHistory

SpecNames == Init /\ [][NextNames]_vars

(***************************************************************************)
(* The handler under drop events that arrive while an earlier call is      *)
(* still running: the listener of line 89-93 does not await handleFiles,   *)
(* so every event starts a call with locals of its own.                    *)
(***************************************************************************)
OverlapPayloads == {
    << <<"/", "p">> >>,
    << <<"/", "f", ".", "p", "n", "g">>, <<"/", "s", "/", "x", ".", "p", "n", "g">> >>,
    << <<"/", "f", ".", "p", "n", "g">> >> }

NextOverlap ==
    \/ \E b \in Batches, paths \in OverlapPayloads : Fits(paths) /\ Drop(b, paths)
    \/ \E b \in Batches : ScanResolve(b)
    \/ \E b \in Batches : ScanReject(b)
    \/ \E b \in Batches : \E k \in inflight[b] :
         \E result \in Outcomes(newFiles[b][k].path, cOverwrite[b]) :
            TransformResolve(b, k, result)
    \/ \E b \in Batches : \E k \in inflight[b] : TransformReject(b, k)
    \/ \E b \in Batches, savePath \in {SavePath, <<>>} : SaveSingleResolve(b, savePath)
    \/ \E b \in Batches, savePath \in {SavePath, <<>>} : SaveZipResolve(b, savePath)
    \/ \E b \in Batches : SaveReject(b)
    \/ \E b \in Batches : CommandResolve(b)
    \/ \E b \in Batches : CommandReject(b)
    \/ SetOverwrite
    \/ ClearHistory

SpecOverlap == Init /\ [][NextOverlap]_vars


(***************************************************************************)
(* The sequential handler of src/App.tsx: no scan, no ids, one transform   *)
(* at a time, items matched by path, outputs collected in an array.        *)
(***************************************************************************)
\* The payloads the sequential handler is given: files only.
SeqPayloads == {
    << <<"/", "f", ".", "p", "n", "g">> >>,
    << <<"/", "f", ".", "p", "n", "g">>, <<"/", "s", "/", "x", ".", "p", "n", "g">> >>,
    << <<"/", "p", "/", "a", ".", "p", "n", "g">>,
       <<"/", "p", "/", "b", ".", "p", "n", "g">>,
       <<"/", "p", "/", "c", ".", "j", "p", "g">> >> }

\* optimize_image resolving, as the interface of App.tsx line 7-12 types it
OptimizedV1(filePath, ow) ==
    [original_size |-> 2, new_size |-> 1, saved_bytes |-> 1,
     output_path |-> IF ow THEN filePath ELSE <<"/", "t">> \o filePath]

OutcomesV1(filePath, ow) == IF IsFile(filePath) THEN {OptimizedV1(filePath, ow)} ELSE {}

\* App.tsx line 42-45
SeqNewFiles(paths) ==
    [i \in 1..Len(paths) |->
        [path |-> paths[i], status |-> "pending", result |-> <<>>, error |-> <<>>]]

\* App.tsx line 46: setFiles((prev) => [...prev, ...newFiles])
SeqAppend(prev, nf) == prev \o nf

\* App.tsx line 51-55
SeqSetOptimizing(prev, path) ==
    [i \in 1..Len(prev) |->
        IF prev[i].path = path THEN [prev[i] EXCEPT !.status = "optimizing"] ELSE prev[i]]

\* App.tsx line 65-69
SeqSetDone(prev, path, result) ==
    [i \in 1..Len(prev) |->
        IF prev[i].path = path
        THEN [prev[i] EXCEPT !.status = "done", !.result = <<result>>]
        ELSE prev[i]]

\* App.tsx line 71-77
SeqSetError(prev, path, e) ==
    [i \in 1..Len(prev) |->
        IF prev[i].path = path
        THEN [prev[i] EXCEPT !.status = "error", !.error = <<e>>]
        ELSE prev[i]]

\* App.tsx line 82-83 and 103: the branch taken after the loop
SeqDisposition(ow, opt) ==
    IF ~ow /\ Len(opt) > 0
    THEN IF Len(opt) = 1 THEN "dlgSingle" ELSE "dlgZip"
    ELSE "end"

\* App.tsx line 85-95 and 111-117: the save() call of the branch taken
SeqDialogOf(kind, paths) ==
    IF kind = "dlgSingle" THEN <<[kind |-> "single", defaultPath |-> paths[1]]>>
    ELSE IF kind = "dlgZip"
         THEN <<[kind |-> "zip", defaultPath |-> <<"s", "q", "s", "h", ".", "z", "i", "p">>]>>
         ELSE <<>>

\* App.tsx line 126-132: outputs paired with the dropped paths by index
SeqFilesToZip(opt, paths) ==
    [i \in 1..Len(opt) |-> <<opt[i], BaseName(paths[i])>>]

\* App.tsx line 50-55 and 81-117: after item `at` the loop marks the next
\* item optimizing and invokes its transform, or leaves for the disposition
SeqAdvance(b, prev, opt, at) ==
    LET nf == newFiles[b]
        next == IF at < Len(nf) THEN "run" ELSE SeqDisposition(cOverwrite[b], opt)
    IN  /\ files' = IF at < Len(nf) THEN SeqSetOptimizing(prev, nf[at + 1].path) ELSE prev
        /\ loopAt' = [loopAt EXCEPT ![b] = IF at < Len(nf) THEN at + 1 ELSE at]
        /\ optimizedResults' = [optimizedResults EXCEPT ![b] = opt]
        /\ pc' = [pc EXCEPT ![b] = next]
        /\ dialogs' = [dialogs EXCEPT ![b] = @ \o SeqDialogOf(next, droppedPaths[b])]

\* App.tsx line 26-30 and 37-61: a drop with a non-empty payload; the handler
\* runs up to the first invoke
SeqDrop(b, paths) ==
    /\ pc[b] = "idle"
    /\ \A a \in Batches : a < b => pc[a] # "idle"
    /\ Len(paths) > 0
    /\ droppedPaths' = [droppedPaths EXCEPT ![b] = paths]
    /\ cOverwrite' = [cOverwrite EXCEPT ![b] = overwrite]
    /\ newFiles' = [newFiles EXCEPT ![b] = SeqNewFiles(paths)]
    /\ files' = SeqSetOptimizing(SeqAppend(files, SeqNewFiles(paths)), paths[1])
    /\ loopAt' = [loopAt EXCEPT ![b] = 1]
    /\ pc' = [pc EXCEPT ![b] = "run"]
    /\ UNCHANGED <<overwrite, dialogs, saveFileCalls, zipCalls, optimizedResults>>
    /\ UNCHANGED <<configPromise, concVars, consoleErrors, settings, invokeLog, cSettings>>

\* App.tsx line 58-69: the awaited invoke resolves
SeqTransformResolve(b, result) ==
    /\ pc[b] = "run"
    /\ loopAt[b] > 0
    /\ SeqAdvance(b, SeqSetDone(files, newFiles[b][loopAt[b]].path, result),
                  Append(optimizedResults[b], result.output_path), loopAt[b])
    /\ UNCHANGED <<overwrite, droppedPaths, cOverwrite, cSettings, newFiles, saveFileCalls, zipCalls>>
    /\ UNCHANGED <<configPromise, concVars, consoleErrors, settings, invokeLog>>

\* App.tsx line 70-78: the awaited invoke rejects
SeqTransformReject(b) ==
    /\ pc[b] = "run"
    /\ loopAt[b] > 0
    /\ SeqAdvance(b, SeqSetError(files, newFiles[b][loopAt[b]].path, Failure),
                  optimizedResults[b], loopAt[b])
    /\ UNCHANGED <<overwrite, droppedPaths, cOverwrite, cSettings, newFiles, saveFileCalls, zipCalls>>
    /\ UNCHANGED <<configPromise, concVars, consoleErrors, settings, invokeLog>>

\* App.tsx line 97-99: the single-file dialog resolves; <<>> stands for null
SeqSaveSingleResolve(b, savePath) ==
    /\ pc[b] = "dlgSingle"
    /\ IF savePath # <<>>
       THEN /\ saveFileCalls' = [saveFileCalls EXCEPT ![b] =
                    Append(@, [srcPath |-> optimizedResults[b][1], destPath |-> savePath])]
            /\ pc' = [pc EXCEPT ![b] = "saveFile"]
       ELSE /\ pc' = [pc EXCEPT ![b] = "end"]
            /\ UNCHANGED saveFileCalls
    /\ UNCHANGED <<files, overwrite, droppedPaths, cOverwrite, cSettings, newFiles, dialogs, zipCalls>>
    /\ UNCHANGED <<configPromise, concVars, seqVars, consoleErrors, settings, invokeLog>>

\* App.tsx line 119-138: the archive dialog resolves; <<>> stands for null
SeqSaveZipResolve(b, savePath) ==
    /\ pc[b] = "dlgZip"
    /\ IF savePath # <<>>
       THEN /\ zipCalls' = [zipCalls EXCEPT ![b] =
                    Append(@, [files |-> SeqFilesToZip(optimizedResults[b], droppedPaths[b]),
                               outputPath |-> savePath])]
            /\ pc' = [pc EXCEPT ![b] = "zipFiles"]
       ELSE /\ pc' = [pc EXCEPT ![b] = "end"]
            /\ UNCHANGED zipCalls
    /\ UNCHANGED <<files, overwrite, droppedPaths, cOverwrite, cSettings, newFiles, dialogs,
                   saveFileCalls>>
    /\ UNCHANGED <<configPromise, concVars, seqVars, consoleErrors, settings, invokeLog>>

\* The sequential handler under drops, settling invokes and dialogs, and the
\* overwrite checkbox (App.tsx line 155); its catch blocks (line 100, 139) and
\* the settling of save_file and zip_files are those of SaveReject,
\* CommandResolve and CommandReject.
NextSeq ==
    \/ \E b \in Batches, paths \in SeqPayloads : SeqDrop(b, paths)
    \/ \E b \in Batches :
         /\ pc[b] = "run"
         /\ \E result \in OutcomesV1(newFiles[b][loopAt[b]].path, cOverwrite[b]) :
               SeqTransformResolve(b, result)
    \/ \E b \in Batches : SeqTransformReject(b)
    \/ \E b \in Batches, savePath \in {SavePath, <<>>} : SeqSaveSingleResolve(b, savePath)
    \/ \E b \in Batches, savePath \in {SavePath, <<>>} : SeqSaveZipResolve(b, savePath)
    \/ \E b \in Batches : SaveReject(b)
    \/ \E b \in Batches : CommandResolve(b)
    \/ \E b \in Batches : CommandReject(b)
    \/ SetOverwrite

SpecSeq == Init /\ [][NextSeq]_vars

(***************************************************************************)
(* The handler while the settings change: the overwrite checkbox, the     *)
(* convert checkbox, the format select, the quality slider, and the        *)
(* stored settings that get_config delivers.  optimize_image resolves, and *)
(* according to the arguments it was invoked with; a rejection does not    *)
(* depend on them.  The runs end when the save dialog would be answered.   *)
(***************************************************************************)
\* The payload of these runs: five files, one more than the limit, so that
\* one item is started after the others.
ParamPayloads == {
    << <<"/", "p">>, <<"/", "s">>, <<"/", "f", ".", "p", "n", "g">> >> }

\* line 338-345: the slider positions the runs choose from
Qualities == {6, 7}

\* line 325-327: the options of the format select
Formats == {<<"j", "p", "g">>, <<"p", "n", "g">>, webp}

\* what get_config resolves with in these runs: the stored settings of a
\* user who turned overwrite off and conversion to webp on
Configs == {[overwrite |-> FALSE, convert_enabled |-> TRUE,
             convert_format |-> webp, quality |-> 7]}

\* line 310: the convert checkbox
SetConvertEnabled ==
    /\ settings' = [settings EXCEPT !.convertEnabled = ~@]
    /\ UNCHANGED <<files, overwrite, pc, droppedPaths, cOverwrite, cSettings, newFiles,
                   results, activeCount, currentIndex, inflight, nextId, dialogs,
                   saveFileCalls, zipCalls>>
    /\ UNCHANGED <<configPromise, seqVars, consoleErrors, invokeLog>>

\* line 319-328: the format select.  Line 322 disables it while convert is
\* off, so a change event reaches line 321 only while convert is on.
SetConvertFormat(f) ==
    /\ settings.convertEnabled
    /\ f # settings.convertFormat
    /\ settings' = [settings EXCEPT !.convertFormat = f]
    /\ UNCHANGED <<files, overwrite, pc, droppedPaths, cOverwrite, cSettings, newFiles,
                   results, activeCount, currentIndex, inflight, nextId, dialogs,
                   saveFileCalls, zipCalls>>
    /\ UNCHANGED <<configPromise, seqVars, consoleErrors, invokeLog>>

\* line 345: the quality slider
SetQuality(q) ==
    /\ q # settings.quality
    /\ settings' = [settings EXCEPT !.quality = q]
    /\ UNCHANGED <<files, overwrite, pc, droppedPaths, cOverwrite, cSettings, newFiles,
                   results, activeCount, currentIndex, inflight, nextId, dialogs,
                   saveFileCalls, zipCalls>>
    /\ UNCHANGED <<configPromise, seqVars, consoleErrors, invokeLog>>

\* line 52-65: get_config resolves; the four setters run in one step
LoadConfig(config) ==
    /\ configPromise = "pending"
    /\ configPromise' = "resolved"
    /\ overwrite' = config.overwrite
    /\ settings' = [convertEnabled |-> config.convert_enabled,
                    convertFormat |-> config.convert_format,
                    quality |-> config.quality]
    /\ UNCHANGED <<files, pc, droppedPaths, cOverwrite, cSettings, newFiles,
                   results, activeCount, currentIndex, inflight, nextId, dialogs,
                   saveFileCalls, zipCalls>>
    /\ UNCHANGED <<seqVars, consoleErrors, invokeLog>>

\* line 66: get_config rejects; .catch(console.error) changes no state
ConfigReject ==
    /\ configPromise = "pending"
    /\ configPromise' = "rejected"
    /\ UNCHANGED <<files, overwrite, pc, droppedPaths, cOverwrite, cSettings, newFiles,
                   results, activeCount, currentIndex, inflight, nextId, dialogs,
                   saveFileCalls, zipCalls>>
    /\ UNCHANGED <<seqVars, consoleErrors, settings, invokeLog>>

\* What optimize_image resolves with for the arguments of one invoke.
ArgOutcomes(args) ==
    IF IsFile(args.filePath)
    THEN {IF args.convertTo = <<>>
          THEN Optimized(args.filePath, args.overwrite)
          ELSE Converted(args.filePath, args.overwrite, args.convertTo)}
    ELSE {}

NextParams ==
    \/ \E b \in 1..MaxDrops, paths \in ParamPayloads : Fits(paths) /\ Drop(b, paths)
    \/ \E b \in Batches : ScanResolve(b)
    \/ \E b \in Batches : \E k \in inflight[b] :
         \E result \in ArgOutcomes(invokeLog[b][k]) : TransformResolve(b, k, result)
    \/ SetOverwrite
    \/ SetConvertEnabled
    \/ \E f \in Formats : SetConvertFormat(f)
    \/ \E q \in Qualities : SetQuality(q)
    \/ \E config \in Configs : LoadConfig(config)
    \/ ConfigReject

SpecParams == Init /\ [][NextParams]_vars

(***************************************************************************)
(* Progress.  The handler under the assumption that optimize_image         *)
(* settles: every pending invoke is eventually resolved or rejected.       *)
(* Nothing is assumed about the scan or about Clear History.  The          *)
(* overwrite checkbox stays as it starts, checked, so a call ends when     *)
(* its dispatch is over; dispatching reads the flag only to pass it on.    *)
(***************************************************************************)
\* The payloads of the progress runs: two folders and a file (five files,
\* one more than the limit) and a folder of one file.
LivePayloads == {
    << <<"/", "p">>, <<"/", "s">>, <<"/", "f", ".", "p", "n", "g">> >>,
    << <<"/", "s">> >> }

\* line 137-164: the invoke for item k of call b settles, either way
SettleItem(b, k) ==
    /\ k \in inflight[b]
    /\ \/ TransformReject(b, k)
       \/ \E result \in Outcomes(newFiles[b][k].path, cOverwrite[b]) :
             TransformResolve(b, k, result)

NextLive ==
    \/ \E b \in 1..MaxDrops, paths \in LivePayloads : Fits(paths) /\ Drop(b, paths)
    \/ \E b \in Batches : ScanResolve(b)
    \/ \E b \in Batches : ScanReject(b)
    \/ \E b \in Batches, k \in 1..MaxItems : SettleItem(b, k)
    \/ ClearHistory

SpecLive ==
    /\ Init /\ [][NextLive]_vars
    /\ \A b \in Batches : \A k \in 1..MaxItems : WF_vars(SettleItem(b, k))

\* The file whose transform hangs: the second file of the folder /p.
HungPath == <<"/", "p", "/", "b", ".", "p", "n", "g">>

\* the invoke for item k of call b settles, unless it is the one that hangs
SettleOther(b, k) ==
    /\ k \in inflight[b]
    /\ newFiles[b][k].path # HungPath
    /\ SettleItem(b, k)

NextHang ==
    \/ \E b \in 1..MaxDrops, paths \in LivePayloads : Fits(paths) /\ Drop(b, paths)
    \/ \E b \in Batches : ScanResolve(b)
    \/ \E b \in Batches : ScanReject(b)
    \/ \E b \in Batches, k \in 1..MaxItems : SettleOther(b, k)
    \/ ClearHistory

SpecHang ==
    /\ Init /\ [][NextHang]_vars
    /\ \A b \in Batches : \A k \in 1..MaxItems : WF_vars(SettleOther(b, k))

(***************************************************************************)
(* Vocabulary of the properties.                                           *)
(***************************************************************************)
\* the ids of the items of call b
IdsOf(b) == {newFiles[b][i].id : i \in 1..Len(newFiles[b])}

\* the positions in `files` of the items of call b that are still tracked
TrackedOf(b) ==
    LET ids == IdsOf(b)
    IN  {i \in 1..Len(files) : files[i].id \in ids}

CountStatus(b, st) == Cardinality({i \in TrackedOf(b) : files[i].status = st})

\* the dispatch phase of call b is over: Promise.all has resolved
Dispatched(b) == pc[b] \in {"dlgSingle", "saveFile", "dlgZip", "zipFiles", "end"}

\* call b is before or in its dispatch phase
Dispatching(b) == pc[b] \in {"scan", "run"}

Terminal(st) == st \in {"done", "error"}

\* the positions in newFiles[b] of the items registered in the success map
Successes(b) == {i \in 1..Len(newFiles[b]) : MapHas(results[b], newFiles[b][i].id)}

SingleFileChosen(b) == \E d \in 1..Len(dialogs[b]) : dialogs[b][d].kind = "single"

ArchiveChosen(b) == \E d \in 1..Len(dialogs[b]) : dialogs[b][d].kind = "zip"

\* the drop of call b was one path, and that path is a file
SingleFileDrop(b) == Len(droppedPaths[b]) = 1 /\ IsFile(droppedPaths[b][1])

\* the position in dps of the root whose expansion holds the k-th path that
\* scan_directory returned
RECURSIVE OriginOf(_, _, _)
OriginOf(dps, k, r) ==
    IF r > Len(dps) THEN 0
    ELSE LET n == Len(ScanDirectory(<<dps[r]>>))
         IN  IF k <= n THEN r ELSE OriginOf(dps, k - n, r + 1)

\* the drop root under which item i of call b was expanded; after a failed
\* scan every dropped path is its own item
RootOf(b, i) ==
    IF \E e \in 1..Len(consoleErrors[b]) : consoleErrors[b][e] = ScanFailed
    THEN droppedPaths[b][i]
    ELSE droppedPaths[b][OriginOf(droppedPaths[b], i, 1)]

\* the position of the first root the loop of line 217-218 matches, 0 for none
RECURSIVE UsedRoot(_, _, _)
UsedRoot(originalPath, dps, i) ==
    IF i > Len(dps) THEN 0
    ELSE IF StartsWith(originalPath, dps[i]) THEN i
         ELSE UsedRoot(originalPath, dps, i + 1)

\* the catch blocks of the save step that call b has run
SaveFailures(b) ==
    {e \in 1..Len(consoleErrors[b]) : consoleErrors[b][e] \in {SaveFailed, ZipFailed}}

\* scan_directory failed in call b
ScanHasFailed(b) ==
    \E e \in 1..Len(consoleErrors[b]) : consoleErrors[b][e] = ScanFailed

\* the invokes of optimize_image pending in the calls 1..n together
RECURSIVE TotalInFlight(_)
TotalInFlight(n) ==
    IF n = 0 THEN 0 ELSE Cardinality(inflight[n]) + TotalInFlight(n - 1)

\* the output path registered for item i of call b
OutputOf(b, i) == MapGet(results[b], newFiles[b][i].id)

\* the member name that zip_files call c of call b was given for item i
MemberOf(b, c, i) ==
    zipCalls[b][c].files[Cardinality({j \in Successes(b) : j <= i})][2]

\* the tracked record of item k of call b
TrackedItem(b, k) ==
    files[CHOOSE i \in 1..Len(files) : files[i].id = newFiles[b][k].id]

\* the folder of three files: a.png, b.png and c.jpg
photos == <<"/", "p">>

\* Call b was the drop of the folder photos with overwrite off, its scan
\* succeeded, its dispatch is over and its three items are tracked: a.png was
\* optimized, b.png was skipped and the transform of c.jpg failed.
PhotosScenario(b) ==
    /\ droppedPaths[b] = <<photos>>
    /\ ~cOverwrite[b]
    /\ ~ScanHasFailed(b)
    /\ Dispatched(b)
    /\ Len(newFiles[b]) = 3
    /\ Cardinality(TrackedOf(b)) = 3
    /\ TrackedItem(b, 1).result # <<>> /\ ~TrackedItem(b, 1).result[1].skipped
    /\ TrackedItem(b, 2).result # <<>> /\ TrackedItem(b, 2).result[1].skipped
    /\ TrackedItem(b, 3).error # <<>>

\* the positions in call b of the item whose transform hangs
HungOf(b) == {k \in 1..Len(newFiles[b]) : newFiles[b][k].path = HungPath}

(***************************************************************************)
(* C1: in the step in which the dispatch phase of a batch completes, the   *)
(* number of its items in state done plus the number in state error is     *)
(* the number of items submitted, and none is pending or optimizing.       *)
(* Clearing the history while the batch runs breaks the count.             *)
(***************************************************************************)
C1_TerminalCountAtCompletion ==
    [][\A b \in Batches :
         (Dispatching(b) /\ Dispatched(b)') =>
            /\ (CountStatus(b, "done") + CountStatus(b, "error"))' = Len(newFiles'[b])
            /\ (CountStatus(b, "pending") + CountStatus(b, "optimizing"))' = 0]_vars

(***************************************************************************)
(* C2: the transforms of one batch that were started and have not          *)
(* finished are activeCount many, they are the items shown as optimizing,  *)
(* and there are never more than CONCURRENCY_LIMIT of them.                *)
(***************************************************************************)
C2_ActiveWithinLimit ==
    \A b \in Batches :
        /\ activeCount[b] = Cardinality(inflight[b])
        /\ activeCount[b] <= CONCURRENCY_LIMIT
        /\ LET tracked == TrackedOf(b)
           IN  /\ Cardinality({i \in tracked : files[i].status = "optimizing"})
                     <= CONCURRENCY_LIMIT
               /\ \A i \in tracked :
                     files[i].status = "optimizing" <=>
                        \E k \in inflight[b] : newFiles[b][k].id = files[i].id

\* the limit binds: four transforms in flight while an item still waits
C2_Witness ==
    \E b \in Batches :
        /\ activeCount[b] = CONCURRENCY_LIMIT
        /\ CountStatus(b, "optimizing") = CONCURRENCY_LIMIT
        /\ CountStatus(b, "pending") = 1

(***************************************************************************)
(* C3: an item's status moves only pending -> optimizing -> done or        *)
(* pending -> optimizing -> error: never pending -> terminal, never back   *)
(* to pending, never out of done or error; a new item starts before them.  *)
(***************************************************************************)
C3_StatusTransitions ==
    [][/\ \A i \in 1..Len(files), j \in 1..Len(files') :
             files[i].id = files'[j].id =>
                \/ files'[j].status = files[i].status
                \/ <<files[i].status, files'[j].status>> \in
                      {<<"pending", "optimizing">>, <<"optimizing", "done">>,
                       <<"optimizing", "error">>}
       /\ \A j \in 1..Len(files') :
             (\A i \in 1..Len(files) : files[i].id # files'[j].id) =>
                files'[j].status \in {"pending", "optimizing"}]_vars

\* an item that waited as pending has gone through to done, another to error
C3_Witness ==
    \E b \in Batches : \E i, j \in TrackedOf(b) :
        /\ Len(newFiles[b]) > CONCURRENCY_LIMIT
        /\ files[i].id = newFiles[b][Len(newFiles[b])].id
        /\ files[i].status = "done"
        /\ files[j].status = "error"


(***************************************************************************)
(* C4: a transform that fails neither cancels nor blocks the siblings of   *)
(* its item: in the step that marks an item error the other pending        *)
(* invokes stay pending, the other items keep their status, and the        *)
(* worker claims the next unclaimed item if there is one; when dispatch    *)
(* is over every item has been claimed and every tracked one is terminal.  *)
(***************************************************************************)
C4_FailureIsolated ==
    [][\A b \in Batches : \A k \in inflight[b] :
         (\E j \in TrackedOf(b)' :
             /\ files'[j].id = newFiles[b][k].id
             /\ files'[j].status = "error") =>
            /\ inflight[b] \ {k} \subseteq inflight'[b]
            /\ currentIndex[b] < Len(newFiles[b]) =>
                  /\ currentIndex'[b] = currentIndex[b] + 1
                  /\ inflight'[b] = (inflight[b] \ {k}) \cup {currentIndex[b] + 1}
            /\ \/ Dispatched(b)'
               \/ pc'[b] = "run" /\ inflight'[b] # {}
            /\ Dispatched(b)' =>
                  /\ currentIndex'[b] = Len(newFiles[b])
                  /\ \A j \in TrackedOf(b)' : Terminal(files'[j].status)
            /\ \A i \in 1..Len(files) :
                  (files[i].id # newFiles[b][k].id /\ files[i].status # "pending") =>
                     files'[i] = files[i]]_vars

\* the first item failed and the batch still ran to the end: the item that
\* had to wait for a free worker is done, no item is left unfinished
C4_Witness ==
    \E b \in Batches :
        /\ Dispatched(b)
        /\ Len(newFiles[b]) > CONCURRENCY_LIMIT
        /\ Cardinality(TrackedOf(b)) = Len(newFiles[b])
        /\ \E i, j \in TrackedOf(b) :
              /\ files[i].id = newFiles[b][1].id
              /\ files[i].status = "error"
              /\ files[j].id = newFiles[b][Len(newFiles[b])].id
              /\ files[j].status = "done"

(***************************************************************************)
(* C5: the success map holds ids of the batch's own items only, each once, *)
(* and a tracked item is in it exactly when it is done with skipped =      *)
(* false, mapped to the output path of its own result; so it never holds   *)
(* an item that is pending, optimizing, error, or done and skipped.        *)
(***************************************************************************)
C5_SuccessMapExact ==
    \A b \in Batches :
        /\ LET ids == IdsOf(b)
           IN  \A e \in 1..Len(results[b]) : results[b][e][1] \in ids
        /\ \A e, g \in 1..Len(results[b]) :
              results[b][e][1] = results[b][g][1] => e = g
        /\ \A i \in TrackedOf(b) :
              /\ MapHas(results[b], files[i].id) <=>
                    (files[i].status = "done" /\ ~files[i].result[1].skipped)
              /\ MapHas(results[b], files[i].id) =>
                    MapGet(results[b], files[i].id) = files[i].result[1].output_path

\* dispatch is over with one usable output, one skipped item and one failure
C5_Witness ==
    \E b \in Batches :
        /\ Dispatched(b)
        /\ Len(results[b]) = 1
        /\ \E i, j, k \in TrackedOf(b) :
              /\ files[i].status = "done" /\ ~files[i].result[1].skipped
              /\ files[j].status = "done" /\ files[j].result[1].skipped
              /\ files[k].status = "error"

(***************************************************************************)
(* C6: every tracked item carries a result exactly when its status is      *)
(* done and an error exactly when its status is error.  The handler of     *)
(* src/App.tsx updates by path, so a second drop of a path rewrites the    *)
(* status of the item an earlier drop left behind and keeps its result.    *)
(***************************************************************************)
C6_ResultIffDone ==
    \A i \in 1..Len(files) :
        /\ files[i].result # <<>> <=> files[i].status = "done"
        /\ files[i].error # <<>> <=> files[i].status = "error"

(***************************************************************************)
(* C7: with overwrite off, the single-file save is chosen exactly when the *)
(* success map has one entry and the drop consisted of one path that is    *)
(* itself a file; it then proposes the item's source path and saves the    *)
(* item's output path.  The code tests the number of expanded items, so a  *)
(* dropped directory holding one file is saved as a single file too.       *)
(***************************************************************************)
C7_SingleFileExactly ==
    \A b \in Batches :
        (Dispatched(b) /\ ~cOverwrite[b]) =>
            /\ SingleFileChosen(b) <=> (Len(results[b]) = 1 /\ SingleFileDrop(b))
            /\ SingleFileChosen(b) =>
                  /\ dialogs[b][1].defaultPath = newFiles[b][1].path
                  /\ \A c \in 1..Len(saveFileCalls[b]) :
                        saveFileCalls[b][c].srcPath = MapGet(results[b], newFiles[b][1].id)

(***************************************************************************)
(* C8: with overwrite off, the archive is chosen whenever an item          *)
(* succeeded and the drop was not one single file with one success.  A     *)
(* dropped directory that expands to one file gets the single-file save.   *)
(***************************************************************************)
C8_ArchiveOtherwise ==
    \A b \in Batches :
        (/\ Dispatched(b)
         /\ ~cOverwrite[b]
         /\ Len(results[b]) >= 1
         /\ ~(Len(results[b]) = 1 /\ SingleFileDrop(b))) => ArchiveChosen(b)

(***************************************************************************)
(* C9: a batch without an entry in the success map (every item failed or   *)
(* was skipped, or nothing was expanded) ends without a save dialog and    *)
(* without a save_file or zip_files call.                                  *)
(***************************************************************************)
C9_EmptyDisposition ==
    \A b \in Batches :
        (Dispatched(b) /\ Len(results[b]) = 0) =>
            /\ pc[b] = "end"
            /\ dialogs[b] = <<>>
            /\ saveFileCalls[b] = <<>>
            /\ zipCalls[b] = <<>>

\* overwrite off, several items, one failed and one skipped, none usable
C9_Witness ==
    \E b \in Batches :
        /\ Dispatched(b)
        /\ ~cOverwrite[b]
        /\ Len(results[b]) = 0
        /\ \E i, j \in TrackedOf(b) :
              /\ files[i].status = "error"
              /\ files[j].status = "done" /\ files[j].result[1].skipped

(***************************************************************************)
(* C10: the pairs handed to zip_files are one per entry of the success     *)
(* map, the p-th pair being the output of the p-th successful item in      *)
(* submission order, whatever the order in which the transforms finished.  *)
(***************************************************************************)
C10_ArchivePairsInOrder ==
    \A b \in Batches : \A c \in 1..Len(zipCalls[b]) :
        LET pairs == zipCalls[b][c].files
            succ  == Successes(b)
        IN  /\ Len(pairs) = Len(results[b])
            /\ Len(pairs) = Cardinality(succ)
            /\ \A p \in 1..Len(pairs) :
                  \E i \in succ :
                     /\ Cardinality({j \in succ : j < i}) = p - 1
                     /\ pairs[p][1] = MapGet(results[b], newFiles[b][i].id)

\* an archive of two or more outputs whose transforms finished out of order
C10_Witness ==
    \E b \in Batches :
        /\ Len(zipCalls[b]) = 1
        /\ Len(zipCalls[b][1].files) >= 2
        /\ Len(zipCalls[b][1].files) < Len(newFiles[b])
        /\ results[b][1][1] > results[b][2][1]

(***************************************************************************)
(* C11: in every zip_files call, an item that lies below the drop root it  *)
(* was expanded from is named by its path relative to the folder holding   *)
(* that root (then normalised and given the output's extension): the name  *)
(* starts with the root's final component and keeps the folders between.   *)
(* For a root written with a trailing separator the code cuts after that   *)
(* separator and the root's own component is lost.  The expected name is   *)
(* the claim's: StripTrailing is the root without its trailing separators, *)
(* RelativeToParent the path after the last separator of that root.        *)
(***************************************************************************)
C11_DescendantRelativeToParent ==
    LET RECURSIVE StripTrailing(_)
        StripTrailing(root) ==
            IF Len(root) > 1 /\ IsSep(root[Len(root)])
            THEN StripTrailing(SubSeq(root, 1, Len(root) - 1))
            ELSE root
        RelativeToParent(path, root) ==
            LET r0 == StripTrailing(root)
            IN  Substring(path, Max(LastIndexOf(r0, "/"), LastIndexOf(r0, "\\")) + 1)
    IN  \A b \in Batches : \A c \in 1..Len(zipCalls[b]) : \A i \in Successes(b) :
            IsUnder(newFiles[b][i].path, RootOf(b, i)) =>
                MemberOf(b, c, i) =
                    ReplaceExt(ReplaceBackslashes(
                                   RelativeToParent(newFiles[b][i].path, RootOf(b, i))),
                               OutputOf(b, i))

(***************************************************************************)
(* C12: in every zip_files call, an item whose path is the drop root it    *)
(* came from, and an item that no drop root equals or contains, is named   *)
(* by the final component of its path (then given the output's             *)
(* extension).  A root listed earlier that is a character prefix of the    *)
(* path is taken instead and the name keeps folders.                       *)
(***************************************************************************)
C12_RootItselfBaseName ==
    \A b \in Batches : \A c \in 1..Len(zipCalls[b]) : \A i \in Successes(b) :
        (\/ newFiles[b][i].path = RootOf(b, i)
         \/ \A r \in 1..Len(droppedPaths[b]) :
               /\ newFiles[b][i].path # droppedPaths[b][r]
               /\ ~IsUnder(newFiles[b][i].path, droppedPaths[b][r])) =>
            MemberOf(b, c, i) =
                ReplaceExt(ReplaceBackslashes(SplitSepPop(newFiles[b][i].path)),
                           OutputOf(b, i))

(***************************************************************************)
(* C13: in every zip_files call, the root an item is relativised against   *)
(* is the item's path or a folder above it, and the name is the one got    *)
(* from the root the item was expanded from.  The code takes the first     *)
(* root that the path starts with as a string, so /a is used for           *)
(* /ab/c/d.png.                                                            *)
(***************************************************************************)
C13_RootIsAncestor ==
    \A b \in Batches : \A c \in 1..Len(zipCalls[b]) : \A i \in Successes(b) :
        LET path == newFiles[b][i].path
            u    == UsedRoot(path, droppedPaths[b], 1)
        IN  /\ u # 0 => \/ droppedPaths[b][u] = path
                        \/ IsUnder(path, droppedPaths[b][u])
            /\ MemberOf(b, c, i) = NameInZip(path, <<RootOf(b, i)>>, OutputOf(b, i))

(***************************************************************************)
(* C14: no member name handed to zip_files holds a backslash.  The         *)
(* extension is appended after the normalisation and is cut from the       *)
(* output path at its last dot, so an output path without an extension     *)
(* brings its own separators into the name.                                *)
(***************************************************************************)
C14_NoBackslashInMember ==
    \A b \in Batches : \A c \in 1..Len(zipCalls[b]) :
        \A p \in 1..Len(zipCalls[b][c].files) :
            \A x \in 1..Len(zipCalls[b][c].files[p][2]) :
                zipCalls[b][c].files[p][2][x] # "\\"

(***************************************************************************)
(* C15: in every zip_files call, for an output file that has an extension, *)
(* the member name is the name before the replacement without the          *)
(* extension of its final component, a dot, and the output's extension.    *)
(* The code cuts at the last dot of the whole name, which lies in a folder *)
(* name when the file name has no extension.  The expected name is the     *)
(* claim's: HasExtension, DirAndStem and ExtensionOf look at the final     *)
(* component of a name only.                                               *)
(***************************************************************************)
C15_OnlyExtensionReplaced ==
    LET HasExtension(p) == LastIndexOf(SplitSepPop(p), ".") > 0
        DirAndStem(p) ==
            IF HasExtension(p)
            THEN SubstringTo(p, Len(p) - Len(SplitSepPop(p))
                                  + LastIndexOf(SplitSepPop(p), "."))
            ELSE p
        ExtensionOf(p) ==
            Substring(SplitSepPop(p), LastIndexOf(SplitSepPop(p), ".") + 1)
    IN  \A b \in Batches : \A c \in 1..Len(zipCalls[b]) : \A i \in Successes(b) :
            LET before == ReplaceBackslashes(
                              RelativeName(newFiles[b][i].path, droppedPaths[b], 1))
            IN  HasExtension(OutputOf(b, i)) =>
                    MemberOf(b, c, i) =
                        DirAndStem(before) \o <<".">> \o ExtensionOf(OutputOf(b, i))

(***************************************************************************)
(* C16: the transform invocations in flight, counted over all calls of the *)
(* handler, are never more than CONCURRENCY_LIMIT.  Every call counts only *)
(* its own, so a drop handled while an earlier batch runs adds up to four  *)
(* more.                                                                   *)
(***************************************************************************)
C16_GlobalWithinLimit ==
    TotalInFlight(MaxBatches) <= CONCURRENCY_LIMIT

(***************************************************************************)
(* C17: an item that is done or error is found unchanged, with its status, *)
(* result and error, after every step that does not clear the history; a   *)
(* drop adds new items and leaves the finished ones as they are.  The      *)
(* handler of src/App.tsx has no ids and updates by path, so a second drop *)
(* of a path rewrites the item that the first drop finished.               *)
(***************************************************************************)
C17_TerminalItemsFrozen ==
    [][\A i \in 1..Len(files) :
          Terminal(files[i].status) =>
             \/ files' = <<>>
             \/ Cardinality({j \in 1..Len(files') : files'[j] = files[i]})
                   >= Cardinality({j \in 1..Len(files) : files[j] = files[i]})]_vars

(***************************************************************************)
(* C18: when the save dialog of a batch is cancelled (the call ends from   *)
(* the dialog without a logged failure), no save_file and no zip_files     *)
(* call has been or is made for the batch and the tracked items stay as    *)
(* they are; a command is only ever invoked with the path the dialog       *)
(* returned, a call that has ended invokes nothing more, and from the end  *)
(* of dispatch on the items of the batch are not modified.                 *)
(***************************************************************************)
C18_CancelInvokesNothing ==
    [][\A b \in Batches :
          /\ (/\ pc[b] \in {"dlgSingle", "dlgZip"}
              /\ pc'[b] = "end"
              /\ consoleErrors'[b] = consoleErrors[b]) =>
                 /\ saveFileCalls'[b] = <<>>
                 /\ zipCalls'[b] = <<>>
                 /\ files' = files
          /\ \A c \in 1..Len(saveFileCalls'[b]) : saveFileCalls'[b][c].destPath # <<>>
          /\ \A c \in 1..Len(zipCalls'[b]) : zipCalls'[b][c].outputPath # <<>>
          /\ pc[b] = "end" =>
                 /\ pc'[b] = "end"
                 /\ saveFileCalls'[b] = saveFileCalls[b]
                 /\ zipCalls'[b] = zipCalls[b]
          /\ Dispatched(b) =>
                 \A i \in TrackedOf(b) :
                    \/ files' = <<>>
                    \/ \E j \in 1..Len(files') : files'[j] = files[i]]_vars

\* an archive dialog was cancelled: the call has ended with its dialog shown,
\* nothing logged and nothing invoked, its items done and error as before
C18_Witness ==
    \E b \in Batches :
        /\ pc[b] = "end"
        /\ Len(dialogs[b]) = 1 /\ dialogs[b][1].kind = "zip"
        /\ consoleErrors[b] = <<>>
        /\ saveFileCalls[b] = <<>> /\ zipCalls[b] = <<>>
        /\ \E i, j \in TrackedOf(b) :
              /\ files[i].status = "done" /\ files[i].result # <<>>
              /\ files[j].status = "error"

(***************************************************************************)
(* C19: a step in which the save step of a batch fails (save(), save_file  *)
(* or zip_files rejects and the catch logs it) logs one line, ends the     *)
(* call and leaves every tracked item as it is; a batch never logs more    *)
(* than one such failure.                                                  *)
(***************************************************************************)
C19_SaveFailureAbsorbed ==
    [][\A b \in Batches :
          /\ Cardinality(SaveFailures(b)') <= 1
          /\ SaveFailures(b)' # SaveFailures(b) =>
                 /\ Len(consoleErrors'[b]) = Len(consoleErrors[b]) + 1
                 /\ pc[b] \in {"dlgSingle", "dlgZip", "saveFile", "zipFiles"}
                 /\ pc'[b] = "end"
                 /\ files' = files
                 /\ saveFileCalls' = saveFileCalls
                 /\ zipCalls' = zipCalls]_vars

\* zip_files was invoked and rejected: the failure is logged, the items of
\* the batch are still done with their result, or error
C19_Witness ==
    \E b \in Batches :
        /\ pc[b] = "end"
        /\ Len(zipCalls[b]) = 1
        /\ Cardinality(SaveFailures(b)) = 1
        /\ Cardinality(TrackedOf(b)) = Len(newFiles[b])
        /\ \E i, j \in TrackedOf(b) :
              /\ files[i].status = "done" /\ files[i].result # <<>>
              /\ files[j].status = "error" /\ files[j].error # <<>>

(***************************************************************************)
(* C20: in the step in which scan_directory fails, the call goes on: one   *)
(* item per dropped path is created, in the order of the drop, put in      *)
(* front of the tracked items, the first CONCURRENCY_LIMIT of them are     *)
(* started and the others wait as pending; once dispatch is over every     *)
(* tracked item of such a batch is done or error.                          *)
(***************************************************************************)
C20_ScanFailureFallsBack ==
    [][\A b \in Batches :
          /\ (~ScanHasFailed(b) /\ ScanHasFailed(b)') =>
                 /\ pc'[b] = "run"
                 /\ Len(newFiles'[b]) = Len(droppedPaths[b])
                 /\ Len(files') = Len(files) + Len(droppedPaths[b])
                 /\ \A i \in 1..Len(droppedPaths[b]) :
                       /\ newFiles'[b][i].path = droppedPaths[b][i]
                       /\ newFiles'[b][i].status = "pending"
                       /\ files'[i].id = newFiles'[b][i].id
                       /\ files'[i].path = droppedPaths[b][i]
                       /\ files'[i].status =
                             IF i <= CONCURRENCY_LIMIT THEN "optimizing" ELSE "pending"
                 /\ inflight'[b] = 1..Min(CONCURRENCY_LIMIT, Len(droppedPaths[b]))
          /\ (ScanHasFailed(b) /\ Dispatched(b)) =>
                 \A i \in TrackedOf(b) : Terminal(files[i].status)]_vars

\* the scan failed for a drop of two folders and a file: the three dropped
\* paths are the items, the file was transformed and the folders failed
C20_Witness ==
    \E b \in Batches :
        /\ ScanHasFailed(b)
        /\ Dispatched(b)
        /\ Len(droppedPaths[b]) = 3
        /\ Len(newFiles[b]) = 3
        /\ \A i \in 1..3 : newFiles[b][i].path = droppedPaths[b][i]
        /\ Cardinality(TrackedOf(b)) = 3
        /\ \E i, j \in TrackedOf(b) :
              /\ files[i].status = "done" /\ IsFile(files[i].path)
              /\ files[j].status = "error" /\ ~IsFile(files[j].path)


(***************************************************************************)
(* C21: the folder of a.png, b.png and c.jpg dropped with overwrite off,   *)
(* a.png optimized, b.png skipped and c.jpg failed, in whatever order the  *)
(* three transforms complete: a and b are done, c is error, the success    *)
(* map holds only the output of a, the one dialog shown is the archive     *)
(* dialog, and a zip_files call carries the single pair of a's output and  *)
(* the name p/a.<extension of a's output>.                                 *)
(***************************************************************************)
C21_PhotosEndToEnd ==
    \A b \in Batches :
        PhotosScenario(b) =>
            LET a == TrackedItem(b, 1)
                out == a.result[1].output_path
            IN  /\ a.path = photos \o <<"/", "a", ".", "p", "n", "g">>
                /\ a.status = "done" /\ a.error = <<>>
                /\ TrackedItem(b, 2).status = "done"
                /\ TrackedItem(b, 2).error = <<>>
                /\ TrackedItem(b, 3).status = "error"
                /\ TrackedItem(b, 3).result = <<>>
                /\ results[b] = << <<a.id, out>> >>
                /\ out # a.path
                /\ Len(dialogs[b]) = 1 /\ dialogs[b][1].kind = "zip"
                /\ saveFileCalls[b] = <<>>
                /\ Len(zipCalls[b]) <= 1
                /\ \A c \in 1..Len(zipCalls[b]) :
                      zipCalls[b][c].files =
                         << <<out, <<"p", "/", "a", ".">> \o SplitDotPop(out)>> >>

\* the scenario has run to its zip_files call, whose one member is p/a.png
C21_Witness ==
    \E b \in Batches :
        /\ PhotosScenario(b)
        /\ Len(zipCalls[b]) = 1
        /\ Len(zipCalls[b][1].files) = 1
        /\ zipCalls[b][1].files[1][2] = <<"p", "/", "a", ".", "p", "n", "g">>

(***************************************************************************)
(* C23: a batch of at most CONCURRENCY_LIMIT items is started whole: the   *)
(* step that creates its items leaves all of them optimizing with their    *)
(* transforms pending and none done or error, and no item of such a batch  *)
(* is ever seen pending afterwards.                                        *)
(***************************************************************************)
C23_SmallBatchStartedWhole ==
    [][\A b \in Batches :
          /\ (/\ pc[b] = "scan" /\ pc'[b] # "scan"
              /\ Len(newFiles'[b]) <= CONCURRENCY_LIMIT) =>
                 /\ currentIndex'[b] = Len(newFiles'[b])
                 /\ inflight'[b] = 1..Len(newFiles'[b])
                 /\ \A k \in 1..Len(newFiles'[b]) :
                       /\ files'[k].id = newFiles'[b][k].id
                       /\ files'[k].status = "optimizing"
          /\ (pc[b] # "scan" /\ Len(newFiles[b]) <= CONCURRENCY_LIMIT) =>
                 /\ CountStatus(b, "pending") = 0
                 /\ CountStatus(b, "pending")' = 0]_vars

\* a batch of three items, below the limit, with all three optimizing and
\* none terminal yet
C23_Witness ==
    \E b \in Batches :
        /\ Len(newFiles[b]) = 3
        /\ Len(newFiles[b]) <= CONCURRENCY_LIMIT
        /\ inflight[b] = {1, 2, 3}
        /\ CountStatus(b, "optimizing") = 3
        /\ CountStatus(b, "done") + CountStatus(b, "error") = 0

(***************************************************************************)
(* C24: in every zip_files call the member names of two different items    *)
(* differ.  The handler computes each name on its own and never compares   *)
(* them: two files of the same base name dropped from different folders    *)
(* both get that base name.                                                *)
(***************************************************************************)
C24_MemberNamesDistinct ==
    \A b \in Batches : \A c \in 1..Len(zipCalls[b]) :
        \A i, j \in 1..Len(zipCalls[b][c].files) :
            i # j => zipCalls[b][c].files[i][2] # zipCalls[b][c].files[j][2]

(***************************************************************************)
(* C25: the cursor of a batch never moves back and never passes the end;   *)
(* the tracked items that have left pending are exactly those at the       *)
(* positions 1..currentIndex; a step invokes the transform for exactly     *)
(* the items the cursor passes in that step, so each item is invoked once  *)
(* and in submission order; and the pending invokes are as many as the     *)
(* workers counted, so no two workers hold the same item.                  *)
(***************************************************************************)
C25_CursorHandsOutOnce ==
    [][\A b \in Batches :
          /\ currentIndex[b] <= currentIndex'[b]
          /\ currentIndex'[b] <= Len(newFiles'[b])
          /\ inflight'[b] \subseteq 1..currentIndex'[b]
          /\ inflight'[b] \ inflight[b] = (currentIndex[b] + 1)..currentIndex'[b]
          /\ activeCount'[b] = Cardinality(inflight'[b])
          /\ \A k \in 1..Len(newFiles'[b]) :
                newFiles'[b][k].id \in {files'[i].id : i \in 1..Len(files')} =>
                   (TrackedItem(b, k)'.status # "pending" <=> k <= currentIndex'[b])]_vars

\* a batch of five items: the four workers were started on the items 1..4,
\* one of them finished and took the fifth item, the last one of the batch
C25_Witness ==
    \E b \in Batches :
        /\ Len(newFiles[b]) = CONCURRENCY_LIMIT + 1
        /\ currentIndex[b] = CONCURRENCY_LIMIT + 1
        /\ CONCURRENCY_LIMIT + 1 \in inflight[b]
        /\ Cardinality(inflight[b]) = CONCURRENCY_LIMIT
        /\ Cardinality(TrackedOf(b)) = CONCURRENCY_LIMIT + 1
        /\ TrackedItem(b, CONCURRENCY_LIMIT + 1).status = "optimizing"
        /\ CountStatus(b, "done") + CountStatus(b, "error") = 1

(***************************************************************************)
(* C26: the step that creates the items of a batch starts the transforms   *)
(* of its first min(CONCURRENCY_LIMIT, n) items; while an item of a        *)
(* running batch is unclaimed, exactly CONCURRENCY_LIMIT transforms of     *)
(* the batch are pending; and a step in which a transform completes while  *)
(* an item is unclaimed claims the next item in that same step.            *)
(***************************************************************************)
C26_WorkConserving ==
    [][\A b \in Batches :
          /\ (pc[b] = "scan" /\ pc'[b] # "scan") =>
                 /\ inflight'[b] = 1..Min(CONCURRENCY_LIMIT, Len(newFiles'[b]))
                 /\ activeCount'[b] = Min(CONCURRENCY_LIMIT, Len(newFiles'[b]))
          /\ currentIndex'[b] < Len(newFiles'[b]) =>
                 /\ pc'[b] = "run"
                 /\ activeCount'[b] = CONCURRENCY_LIMIT
                 /\ Cardinality(inflight'[b]) = CONCURRENCY_LIMIT
          /\ (inflight[b] \ inflight'[b] # {} /\ currentIndex[b] < Len(newFiles[b])) =>
                 /\ currentIndex'[b] = currentIndex[b] + 1
                 /\ currentIndex'[b] \in inflight'[b]
                 /\ activeCount'[b] = activeCount[b]]_vars

\* a worker of a five-item batch has finished while the fifth item was
\* unclaimed: the fifth transform is pending and four are active again
C26_Witness ==
    \E b \in Batches :
        /\ pc[b] = "run"
        /\ Len(newFiles[b]) > CONCURRENCY_LIMIT
        /\ currentIndex[b] = Len(newFiles[b])
        /\ activeCount[b] = CONCURRENCY_LIMIT
        /\ CountStatus(b, "optimizing") = CONCURRENCY_LIMIT
        /\ CountStatus(b, "pending") = 0
        /\ CountStatus(b, "done") = 1

(***************************************************************************)
(* C27: when every pending transform eventually resolves or rejects, a     *)
(* batch that has started dispatching eventually completes dispatch: no    *)
(* transform of it is pending, currentIndex is the number of its items     *)
(* and activeCount is 0.                                                   *)
(***************************************************************************)
C27_DispatchCompletes ==
    \A b \in Batches :
        (pc[b] = "run") ~>
            (/\ Dispatched(b)
             /\ inflight[b] = {}
             /\ currentIndex[b] = Len(newFiles[b])
             /\ activeCount[b] = 0)

\* the dispatch of a batch of five items, one more than the limit, is over
C27_Witness ==
    \E b \in Batches :
        /\ Dispatched(b)
        /\ Len(newFiles[b]) > CONCURRENCY_LIMIT
        /\ currentIndex[b] = Len(newFiles[b])
        /\ activeCount[b] = 0
        /\ inflight[b] = {}

(***************************************************************************)
(* C28: when the transform of one item never completes and every other     *)
(* pending transform eventually resolves or rejects, a batch that has      *)
(* started dispatching eventually has claimed all its items, has no        *)
(* transform pending but that of the hung item, counts at most one active  *)
(* worker, and shows every other tracked item as done or error.            *)
(***************************************************************************)
C28_HungItemIsolated ==
    \A b \in Batches :
        (pc[b] = "run") ~>
            (/\ inflight[b] \subseteq HungOf(b)
             /\ currentIndex[b] = Len(newFiles[b])
             /\ activeCount[b] = Cardinality(HungOf(b))
             /\ \A k \in 1..Len(newFiles[b]) :
                   newFiles[b][k].id \in {files[i].id : i \in 1..Len(files)} =>
                      IF k \in HungOf(b)
                      THEN TrackedItem(b, k).status = "optimizing"
                      ELSE Terminal(TrackedItem(b, k).status))

\* the batch of five items with the hung transform: the other four items
\* are done or error, the hung one is optimizing and holds the one worker
C28_Witness ==
    \E b \in Batches :
        /\ pc[b] = "run"
        /\ Len(newFiles[b]) = CONCURRENCY_LIMIT + 1
        /\ HungOf(b) = {2}
        /\ inflight[b] = {2}
        /\ activeCount[b] = 1
        /\ Cardinality(TrackedOf(b)) = CONCURRENCY_LIMIT + 1
        /\ CountStatus(b, "optimizing") = 1
        /\ CountStatus(b, "done") + CountStatus(b, "error") = CONCURRENCY_LIMIT
        /\ CountStatus(b, "done") >= 1 /\ CountStatus(b, "error") >= 1

(***************************************************************************)
(* C29: a batch opens at most one save dialog and invokes save_file or     *)
(* zip_files at most once, and whenever it has opened the dialog or        *)
(* invoked one of the two, its dispatch is over: every item is claimed,    *)
(* no transform is pending and no tracked item of it is pending or         *)
(* optimizing.                                                             *)
(***************************************************************************)
C29_AggregationAfterDispatch ==
    \A b \in Batches :
        /\ Len(dialogs[b]) <= 1
        /\ Len(saveFileCalls[b]) + Len(zipCalls[b]) <= 1
        /\ Len(saveFileCalls[b]) + Len(zipCalls[b]) <= Len(dialogs[b])
        /\ dialogs[b] # <<>> =>
              /\ Dispatched(b)
              /\ currentIndex[b] = Len(newFiles[b])
              /\ inflight[b] = {}
              /\ activeCount[b] = 0
              /\ CountStatus(b, "pending") + CountStatus(b, "optimizing") = 0

\* zip_files was invoked for a batch of five items, all of them tracked
\* and done or error
C29_Witness ==
    \E b \in Batches :
        /\ Len(newFiles[b]) = CONCURRENCY_LIMIT + 1
        /\ Len(dialogs[b]) = 1
        /\ Len(zipCalls[b]) = 1
        /\ CountStatus(b, "done") + CountStatus(b, "error") = CONCURRENCY_LIMIT + 1
        /\ CountStatus(b, "done") >= 2

(***************************************************************************)
(* C30: in the sequential handler every pair handed to zip_files joins an  *)
(* output with the base name of the item that produced it: the batch has   *)
(* an item whose transform gives that output and whose path has that base  *)
(* name.  The handler pairs the k-th output with the k-th dropped path,    *)
(* and a failed item leaves no output, so the outputs after it move up.    *)
(***************************************************************************)
C30_IndexPairsOwnItem ==
    \A b \in Batches : \A c \in 1..Len(zipCalls[b]) :
        \A p \in 1..Len(zipCalls[b][c].files) :
            \E k \in 1..Len(newFiles[b]) :
                /\ \E r \in OutcomesV1(newFiles[b][k].path, cOverwrite[b]) :
                      r.output_path = zipCalls[b][c].files[p][1]
                /\ BaseName(newFiles[b][k].path) = zipCalls[b][c].files[p][2]

(***************************************************************************)
(* C31: the overwrite flag and the settings a call works with are those    *)
(* of the moment of its drop and no later step changes them; every         *)
(* optimize_image invoke of the call, in whatever step it is made, is      *)
(* given the path of its item with that overwrite flag, the convert        *)
(* target and the quality of these settings; and when dispatch is over     *)
(* the save dialog is opened exactly if that overwrite flag is off and     *)
(* the success map is not empty.                                           *)
(***************************************************************************)
C31_ParametersFixedAtDrop ==
    [][\A b \in Batches :
          /\ (pc[b] = "idle" /\ pc'[b] # "idle") =>
                 /\ cOverwrite'[b] = overwrite
                 /\ cSettings'[b] = settings
          /\ pc[b] # "idle" =>
                 /\ cOverwrite'[b] = cOverwrite[b]
                 /\ cSettings'[b] = cSettings[b]
          /\ Len(invokeLog'[b]) = currentIndex'[b]
          /\ \A n \in 1..Len(invokeLog'[b]) :
                invokeLog'[b][n] =
                   [filePath    |-> newFiles'[b][n].path,
                    overwrite   |-> cOverwrite'[b],
                    convertTo   |-> IF cSettings'[b].convertEnabled
                                    THEN cSettings'[b].convertFormat ELSE <<>>,
                    qualityStep |-> cSettings'[b].quality]
          /\ Dispatched(b)' =>
                 (dialogs'[b] # <<>> <=> (~cOverwrite'[b] /\ Len(results'[b]) > 0))]_vars

\* a batch of five items dropped with overwrite off, conversion to webp and
\* quality 7 has been dispatched and its dialog is open, while the settings
\* now say overwrite on, format png and quality 6
C31_Witness ==
    \E b \in Batches :
        /\ Dispatched(b)
        /\ Len(invokeLog[b]) = CONCURRENCY_LIMIT + 1
        /\ invokeLog[b][CONCURRENCY_LIMIT + 1].overwrite = FALSE
        /\ invokeLog[b][CONCURRENCY_LIMIT + 1].convertTo = webp
        /\ invokeLog[b][CONCURRENCY_LIMIT + 1].qualityStep = 7
        /\ overwrite
        /\ settings.convertFormat = <<"p", "n", "g">>
        /\ settings.quality = 6
        /\ Len(dialogs[b]) = 1

(***************************************************************************)
(* C32: a call that was started with overwrite on never opens the save     *)
(* dialog and never invokes save_file or zip_files: it ends when its       *)
(* dispatch is over, whatever the checkbox says by then.  Its items are    *)
(* done or error at that point, and its success map holds exactly the      *)
(* tracked items that are done and not skipped, each with the output       *)
(* path of its result.                                                     *)
(***************************************************************************)
C32_OverwriteSavesNothing ==
    \A b \in Batches :
        (pc[b] # "idle" /\ cOverwrite[b]) =>
            /\ dialogs[b] = <<>>
            /\ saveFileCalls[b] = <<>>
            /\ zipCalls[b] = <<>>
            /\ pc[b] \in {"scan", "run", "end"}
            /\ \A i \in TrackedOf(b) :
                  /\ pc[b] = "end" => Terminal(files[i].status)
                  /\ MapHas(results[b], files[i].id) <=>
                        /\ files[i].status = "done"
                        /\ ~files[i].result[1].skipped
                  /\ MapHas(results[b], files[i].id) =>
                        MapGet(results[b], files[i].id) = files[i].result[1].output_path

\* a call started with overwrite on has ended without a dialog; three of
\* its five items are registered in the success map, one was skipped and
\* one failed, and the checkbox has been switched off meanwhile
C32_Witness ==
    \E b \in Batches :
        /\ cOverwrite[b] /\ ~overwrite
        /\ pc[b] = "end"
        /\ Len(newFiles[b]) = CONCURRENCY_LIMIT + 1
        /\ Cardinality(TrackedOf(b)) = CONCURRENCY_LIMIT + 1
        /\ Len(results[b]) = 3
        /\ CountStatus(b, "done") = 4
        /\ CountStatus(b, "error") = 1
        /\ dialogs[b] = <<>>

(***************************************************************************)
(* C33: a step that empties the file list changes nothing else: the        *)
(* calls stay where they are, with their cursor, pending transforms and    *)
(* success map.  An item of the file list was in it before the step or is  *)
(* created by a scan that ends in the step, so a cleared item never comes  *)
(* back.  Whether or not its items are tracked, a call whose transform     *)
(* completes while an item is unclaimed claims that item and invokes its   *)
(* transform, the success map only grows, and when the last transform      *)
(* completes every item has been invoked and the call takes the branch     *)
(* that its overwrite flag and its success map select.                     *)
(***************************************************************************)
C33_ClearHistoryKeepsBatch ==
    [][/\ (Len(files) > 0 /\ files' = <<>>) =>
          /\ pc' = pc
          /\ currentIndex' = currentIndex
          /\ activeCount' = activeCount
          /\ inflight' = inflight
          /\ results' = results
          /\ invokeLog' = invokeLog
       /\ \A i \in 1..Len(files') :
            \/ \E j \in 1..Len(files) : files[j].id = files'[i].id
            \/ \E b \in Batches :
                  /\ pc[b] = "scan"
                  /\ \E k \in 1..Len(newFiles'[b]) : newFiles'[b][k].id = files'[i].id
       /\ \A b \in Batches :
        /\ (inflight[b] \ inflight'[b] # {} /\ currentIndex[b] < Len(newFiles[b])) =>
               /\ currentIndex'[b] = currentIndex[b] + 1
               /\ currentIndex'[b] \in inflight'[b]
               /\ Len(invokeLog'[b]) = currentIndex'[b]
               /\ invokeLog'[b][currentIndex'[b]].filePath =
                     newFiles[b][currentIndex'[b]].path
        /\ Len(results[b]) <= Len(results'[b])
        /\ \A n \in 1..Len(results[b]) : results'[b][n] = results[b][n]
        /\ (Dispatching(b) /\ Dispatched(b)') =>
               /\ inflight'[b] = {}
               /\ currentIndex'[b] = Len(newFiles'[b])
               /\ Len(invokeLog'[b]) = Len(newFiles'[b])
               /\ pc'[b] = Disposition(cOverwrite[b], results'[b], newFiles'[b])
               /\ dialogs'[b] = dialogs[b] \o DialogOf(pc'[b], newFiles'[b])]_vars

\* the history was cleared while a batch of five items was running: none
\* of its items is tracked, the fifth item has been claimed and invoked,
\* outputs are registered, and transforms are still pending
C33_Witness ==
    \E b \in Batches :
        /\ pc[b] = "run"
        /\ Len(newFiles[b]) = CONCURRENCY_LIMIT + 1
        /\ TrackedOf(b) = {}
        /\ files = <<>>
        /\ currentIndex[b] = CONCURRENCY_LIMIT + 1
        /\ Len(invokeLog[b]) = CONCURRENCY_LIMIT + 1
        /\ Len(results[b]) >= 2
        /\ inflight[b] # {}

====
